---------------------------- MODULE Spec2Model ----------------------------
(***************************************************************************)
(* json2atom: one run of main() (src/src/main.rs), from the command line   *)
(* to the process exit.                                                     *)
(*                                                                          *)
(* Representation.                                                          *)
(*   - Option<T>: None is <<>>, Some(v) is <<v>>.                           *)
(*   - A timestamp string (date_published, date_modified, the feed's        *)
(*     updated) is the sequence of its bytes, so that str::cmp and the      *)
(*     RFC 3339 parser work on what the program works on.  Every other      *)
(*     string (titles, urls, names, paths) is a TLA+ string.                *)
(*   - A JSON document is the record of the fields the program reads; a     *)
(*     required field that the document lacks is None.                      *)
(*   - The Atom text is the sequence of the elements that the format!       *)
(*     calls append, an entry holding its own elements in "kids".           *)
(***************************************************************************)
EXTENDS Integers, Sequences, FiniteSets, TLC

\* ------------------------------------------------------------- bounds
MaxItems == 2
MaxAuthors == 2
MaxSkew == 1

\* ------------------------------------------------------------- Option
None == <<>>
Some(v) == <<v>>
IsSome(o) == o # <<>>
IsNone(o) == o = <<>>
Unwrap(o) == o[1]
Option(S) == {None} \cup {Some(v) : v \in S}

SeqsUpTo(S, n) == UNION {[1..k -> S] : k \in 0..n}

\* ------------------------------------------------------------- bytes
Byte(c) ==
    CASE c = "0" -> 48 [] c = "1" -> 49 [] c = "2" -> 50 [] c = "3" -> 51
      [] c = "4" -> 52 [] c = "5" -> 53 [] c = "6" -> 54 [] c = "7" -> 55
      [] c = "8" -> 56 [] c = "9" -> 57 [] c = "+" -> 43 [] c = "-" -> 45
      [] c = ":" -> 58 [] c = "T" -> 84 [] c = "Z" -> 90 [] c = "t" -> 116
      [] c = "z" -> 122 [] c = "x" -> 120

Bytes(cs) == [i \in 1..Len(cs) |-> Byte(cs[i])]

IsDigit(b) == b >= 48 /\ b <= 57

\* Ordering of str::cmp: byte-wise lexicographic, a proper prefix is Less.
RECURSIVE StrCmp(_, _)
StrCmp(a, b) ==
    IF a = <<>> THEN (IF b = <<>> THEN "Equal" ELSE "Less")
    ELSE IF b = <<>> THEN "Greater"
    ELSE IF Head(a) < Head(b) THEN "Less"
    ELSE IF Head(a) > Head(b) THEN "Greater"
    ELSE StrCmp(Tail(a), Tail(b))

\* ------------------------------------------------------------- time
IsLeap(y) == (y % 4 = 0 /\ y % 100 # 0) \/ y % 400 = 0

DaysInMonth(y, m) ==
    IF m = 2 THEN (IF IsLeap(y) THEN 29 ELSE 28)
    ELSE IF m \in {4, 6, 9, 11} THEN 30 ELSE 31

\* Days from 1970-01-01 to the civil date y-m-d (proleptic Gregorian, y >= 0).
DaysFromCivil(y, m, d) ==
    LET yy  == IF m <= 2 THEN y - 1 ELSE y
        era == yy \div 400
        yoe == yy - era * 400
        mp  == IF m > 2 THEN m - 3 ELSE m + 9
        doy == (153 * mp + 2) \div 5 + d - 1
        doe == yoe * 365 + yoe \div 4 - yoe \div 100 + doy
    IN era * 146097 + doe - 719468

\* An OffsetDateTime as the instant it denotes: seconds since 1970-01-01T00:00:00Z.
\* OffsetDateTime's ordering compares instants, whatever the offsets.
Instant(y, mo, d, h, mi, s, offsetSeconds) ==
    DaysFromCivil(y, mo, d) * 86400 + h * 3600 + mi * 60 + s - offsetSeconds

Two(n) == <<48 + (n \div 10), 48 + (n % 10)>>
Four(n) == <<48 + (n \div 1000), 48 + ((n \div 100) % 10)>> \o Two(n % 100)

\* Formatting of a UTC date-time with well_known::Rfc3339 (whole seconds).
FormatRfc3339(t) ==
    Four(t.y) \o <<45>> \o Two(t.mo) \o <<45>> \o Two(t.d) \o <<84>> \o
    Two(t.h) \o <<58>> \o Two(t.mi) \o <<58>> \o Two(t.s) \o <<90>>

\* now(): the wall clock reading t, formatted.
now(t) == FormatRfc3339(t)

Num2(s, i) == (s[i] - 48) * 10 + (s[i + 1] - 48)
Num4(s, i) == Num2(s, i) * 100 + Num2(s, i + 2)

\* parse_dt: OffsetDateTime::parse(input, &Rfc3339) on strings without a
\* fractional second: YYYY-MM-DDTHH:MM:SS followed by Z or by +HH:MM / -HH:MM.
\* The result is [ok |-> FALSE] or [ok |-> TRUE, instant |-> seconds].
parse_dt(s) ==
    LET n == Len(s)
        digitsAt(P) == \A i \in P : IsDigit(s[i])
        shape ==
            /\ n \in {20, 25}
            /\ digitsAt({1, 2, 3, 4, 6, 7, 9, 10, 12, 13, 15, 16, 18, 19})
            /\ s[5] = 45 /\ s[8] = 45
            /\ s[11] \in {84, 116}
            /\ s[14] = 58 /\ s[17] = 58
            /\ IF n = 20 THEN s[20] \in {90, 122}
               ELSE /\ s[20] \in {43, 45}
                    /\ digitsAt({21, 22, 24, 25})
                    /\ s[23] = 58
        y  == Num4(s, 1)
        mo == Num2(s, 6)
        d  == Num2(s, 9)
        h  == Num2(s, 12)
        mi == Num2(s, 15)
        sc == Num2(s, 18)
        oh == IF n = 25 THEN Num2(s, 21) ELSE 0
        om == IF n = 25 THEN Num2(s, 24) ELSE 0
        off == (IF n = 25 /\ s[20] = 45 THEN -1 ELSE 1) * (oh * 3600 + om * 60)
    IN IF ~shape THEN [ok |-> FALSE]
       ELSE IF /\ mo \in 1..12
               /\ d \in 1..DaysInMonth(y, mo)
               /\ h <= 23 /\ mi <= 59 /\ sc <= 59
               /\ oh <= 23 /\ om <= 59
            THEN [ok |-> TRUE, instant |-> Instant(y, mo, d, h, mi, sc, off)]
            ELSE [ok |-> FALSE]


\* ------------------------------------------------------------- Author
\* Author::to_atom: the author element; the name is empty when absent, the
\* uri element is there only when url is.
Author_to_atom(a) ==
    [tag  |-> "author",
     name |-> IF IsSome(a.name) THEN Unwrap(a.name) ELSE "",
     uri  |-> a.url]

RECURSIVE AuthorsToAtom(_)
AuthorsToAtom(as) ==
    IF as = <<>> THEN <<>>
    ELSE <<Author_to_atom(Head(as))>> \o AuthorsToAtom(Tail(as))

\* ------------------------------------------------------------- Item
\* Variant of Item::cleanup_authors that merges: the legacy author is appended
\* to an authors list that is already there.
Item_cleanup_authors_Merge(item) ==
    IF IsSome(item.author)
    THEN [item EXCEPT
            !.authors = IF IsNone(item.authors)
                        THEN Some(<<Unwrap(item.author)>>)
                        ELSE Some(Append(Unwrap(item.authors), Unwrap(item.author))),
            !.author = None]
    ELSE item

\* Item::cleanup_authors
Item_cleanup_authors(item) ==
    IF IsSome(item.author)
    THEN [item EXCEPT
            !.authors = IF IsNone(item.authors)
                        THEN Some(<<Unwrap(item.author)>>)
                        ELSE item.authors,
            !.author = None]
    ELSE item

\* Variant of the entry's updated value that looks at date_published first.
Item_updated_PublishedFirst(item, t) ==
    IF IsSome(item.date_published) THEN Unwrap(item.date_published)
    ELSE IF IsSome(item.date_modified) THEN Unwrap(item.date_modified)
    ELSE now(t)

\* The updated value of an entry: date_modified, else date_published, else now().
Item_updated(item, t) ==
    IF IsSome(item.date_modified) THEN Unwrap(item.date_modified)
    ELSE IF IsSome(item.date_published) THEN Unwrap(item.date_published)
    ELSE now(t)

\* The published element of an entry.
Item_published(item) ==
    IF IsSome(item.date_published)
    THEN <<[tag |-> "published", date |-> Unwrap(item.date_published)]>>
    ELSE <<>>

\* The content element of an entry: content_text wins over content_html.
Item_content(item) ==
    IF IsSome(item.content_text)
    THEN <<[tag |-> "content", type |-> "text", text |-> Unwrap(item.content_text)]>>
    ELSE IF IsSome(item.content_html)
    THEN <<[tag |-> "content", type |-> "html", text |-> Unwrap(item.content_html)]>>
    ELSE <<>>

Enclosure(att) ==
    [tag |-> "link", rel |-> "enclosure", href |-> att.url,
     type |-> att.mime_type, length |-> att.size_in_bytes]

RECURSIVE Enclosures(_)
Enclosures(atts) ==
    IF atts = <<>> THEN <<>>
    ELSE <<Enclosure(Head(atts))>> \o Enclosures(Tail(atts))

\* Item::to_atom, the wall clock reading t.
Item_to_atom(item, t) ==
    [tag  |-> "entry",
     lang |-> item.language,
     kids |->
        <<[tag |-> "id", text |-> item.id]>>
        \o (IF IsSome(item.title)
            THEN <<[tag |-> "title", text |-> Unwrap(item.title)]>> ELSE <<>>)
        \o (IF IsSome(item.url)
            THEN <<[tag |-> "link", rel |-> "alternate", href |-> Unwrap(item.url)]>>
            ELSE <<>>)
        \o (IF IsSome(item.summary)
            THEN <<[tag |-> "summary", text |-> Unwrap(item.summary)]>> ELSE <<>>)
        \o Item_content(item)
        \o <<[tag |-> "updated", date |-> Item_updated(item, t)]>>
        \o Item_published(item)
        \o (IF IsSome(item.authors) THEN AuthorsToAtom(Unwrap(item.authors)) ELSE <<>>)
        \o (IF IsSome(item.attachments) THEN Enclosures(Unwrap(item.attachments))
            ELSE <<>>)]

\* ------------------------------------------------------------- Feed
\* Feed::cleanup_authors
Feed_cleanup_authors(feed) ==
    IF IsSome(feed.author)
    THEN [feed EXCEPT
            !.authors = IF IsNone(feed.authors)
                        THEN Some(<<Unwrap(feed.author)>>)
                        ELSE feed.authors,
            !.author = None]
    ELSE feed

\* serde_json::from_str::<Item> on a JSON item: id is required.
DeserializeItem(j) ==
    IF IsNone(j.id) THEN [ok |-> FALSE]
    ELSE [ok |-> TRUE, item |-> [j EXCEPT !.id = Unwrap(j.id)]]

\* Variant of the deserializer that defaults a missing title to the empty string.
Deserialize_DefaultTitle(doc) ==
    IF IsNone(doc.version) THEN [ok |-> FALSE]
    ELSE IF IsSome(doc.items)
            /\ \E i \in 1..Len(Unwrap(doc.items)) :
                   ~DeserializeItem(Unwrap(doc.items)[i]).ok
    THEN [ok |-> FALSE]
    ELSE [ok |-> TRUE,
          feed |-> [doc EXCEPT
             !.version = Unwrap(doc.version),
             !.title = IF IsSome(doc.title) THEN Unwrap(doc.title) ELSE "",
             !.items = IF IsNone(doc.items) THEN None
                       ELSE Some([i \in 1..Len(Unwrap(doc.items)) |->
                                   DeserializeItem(Unwrap(doc.items)[i]).item])]]

\* serde_json::from_str::<Feed> on a JSON document: version and title are
\* required, and so is every item's id.
Deserialize(doc) ==
    IF IsNone(doc.version) \/ IsNone(doc.title) THEN [ok |-> FALSE]
    ELSE IF IsSome(doc.items)
            /\ \E i \in 1..Len(Unwrap(doc.items)) :
                   ~DeserializeItem(Unwrap(doc.items)[i]).ok
    THEN [ok |-> FALSE]
    ELSE [ok |-> TRUE,
          feed |-> [doc EXCEPT
             !.version = Unwrap(doc.version),
             !.title = Unwrap(doc.title),
             !.items = IF IsNone(doc.items) THEN None
                       ELSE Some([i \in 1..Len(Unwrap(doc.items)) |->
                                   DeserializeItem(Unwrap(doc.items)[i]).item])]]

\* Feed::parse on the text read: the lines, joined, must be one JSON document
\* (anything before or after it is a syntax error), which is deserialized and
\* then normalised, the feed first and every item after it.
Feed_parse(data) ==
    IF Len(data) # 1 \/ data[1].kind # "json" THEN [ok |-> FALSE]
    ELSE LET r == Deserialize(data[1].doc)
         IN IF ~r.ok THEN [ok |-> FALSE]
            ELSE LET f == Feed_cleanup_authors(r.feed)
                 IN [ok |-> TRUE,
                     feed |-> [f EXCEPT !.items =
                        IF IsNone(f.items) THEN None
                        ELSE Some([i \in 1..Len(Unwrap(f.items)) |->
                                    Item_cleanup_authors(Unwrap(f.items)[i])])]]

\* "2000-01-01T00:00:00Z", the value the scan of Feed::to_atom starts from.
Floor ==
    Bytes(<<"2", "0", "0", "0", "-", "0", "1", "-", "0", "1", "T",
            "0", "0", ":", "0", "0", ":", "0", "0", "Z">>)

\* Variant of the author block that emits the placeholder only when authors is
\* absent, not when it is an empty list.
Feed_authors_block_NoneOnly(feed) ==
    IF IsSome(feed.authors) THEN AuthorsToAtom(Unwrap(feed.authors))
    ELSE <<[tag |-> "author", name |-> "", uri |-> None]>>

\* The feed-level author block of Feed::to_atom.
Feed_authors_block(feed) ==
    LET emitted == IF IsSome(feed.authors)
                   THEN AuthorsToAtom(Unwrap(feed.authors)) ELSE <<>>
        author_exists == IsSome(feed.authors) /\ Len(Unwrap(feed.authors)) > 0
    IN emitted \o (IF ~author_exists
                   THEN <<[tag |-> "author", name |-> "", uri |-> None]>>
                   ELSE <<>>)

\* The feed-level id of Feed::to_atom.
Feed_id(feed) ==
    IF IsSome(feed.feed_url) THEN Unwrap(feed.feed_url) ELSE feed.title

\* Feed::to_atom up to the scan of the items: declaration, root element,
\* authors, title, id, links, subtitle, logo.
Feed_to_atom_head(feed) ==
    <<[tag |-> "?xml"], [tag |-> "feed", lang |-> feed.language]>>
    \o Feed_authors_block(feed)
    \o <<[tag |-> "title", text |-> feed.title]>>
    \o <<[tag |-> "id", text |-> Feed_id(feed)]>>
    \o (IF IsSome(feed.home_page_url)
        THEN <<[tag |-> "link", rel |-> "alternate", href |-> Unwrap(feed.home_page_url)]>>
        ELSE <<>>)
    \o (IF IsSome(feed.feed_url)
        THEN <<[tag |-> "link", rel |-> "self", href |-> Unwrap(feed.feed_url)]>>
        ELSE <<>>)
    \o (IF IsSome(feed.description)
        THEN <<[tag |-> "subtitle", text |-> Unwrap(feed.description)]>> ELSE <<>>)
    \o (IF IsSome(feed.icon)
        THEN <<[tag |-> "logo", text |-> Unwrap(feed.icon)]>> ELSE <<>>)

\* Variant of the scan step that takes the item's value without comparing.
ScanStep_NoCompare(upd, item) ==
    IF IsSome(item.date_modified) THEN Unwrap(item.date_modified)
    ELSE IF IsSome(item.date_published) THEN Unwrap(item.date_published)
    ELSE upd

\* One step of the scan of Feed::to_atom: the running value after the item.
ScanStep(upd, item) ==
    IF IsSome(item.date_modified)
    THEN (IF StrCmp(upd, Unwrap(item.date_modified)) = "Less"
          THEN Unwrap(item.date_modified) ELSE upd)
    ELSE IF IsSome(item.date_published)
    THEN (IF StrCmp(upd, Unwrap(item.date_published)) = "Less"
          THEN Unwrap(item.date_published) ELSE upd)
    ELSE upd

\* ------------------------------------------------------------- files
\* get_mtime: None when the file's metadata cannot be read (no such file),
\* when it holds no modification time, or when the local offset at that
\* instant cannot be resolved; the offset does not change the instant.
get_mtime(files, path, offsetOk) ==
    IF files[path].exists /\ IsSome(files[path].mtime) /\ offsetOk
    THEN files[path].mtime
    ELSE None

\* Variant of the decision that also writes when updated equals the mtime.
write_file_GreaterEqual(upd, mtime) ==
    IF IsSome(mtime) THEN upd >= Unwrap(mtime) ELSE TRUE

\* The decision of main whether to write the named file.
write_file(upd, mtime) ==
    IF IsSome(mtime) THEN upd > Unwrap(mtime) ELSE TRUE


\* ------------------------------------------------------------- inputs
AuthorA == [name |-> Some("A"), url |-> None, avatar |-> None]
AuthorB == [name |-> Some("B"), url |-> Some("http://b"), avatar |-> Some("b.png")]
AuthorAnon == [name |-> None, url |-> None, avatar |-> None]
Authors == {AuthorA, AuthorB, AuthorAnon}

D1999 ==
    Bytes(<<"1", "9", "9", "9", "-", "1", "2", "-", "3", "1", "T",
            "2", "3", ":", "5", "9", ":", "5", "9", "Z">>)
D2021 ==
    Bytes(<<"2", "0", "2", "1", "-", "0", "1", "-", "0", "1", "T",
            "0", "0", ":", "0", "0", ":", "0", "0", "Z">>)
\* Later than D2021 as a string, one hour earlier as an instant.
D2021Off ==
    Bytes(<<"2", "0", "2", "1", "-", "0", "1", "-", "0", "1", "T",
            "0", "1", ":", "0", "0", ":", "0", "0", "+", "0", "2", ":", "0", "0">>)
\* Not a timestamp.
DBad == Bytes(<<"x">>)

\* The wall clock readings of a run.
NowSet ==
    {[y |-> 2026, mo |-> 11, d |-> 5, h |-> 12, mi |-> 0, s |-> k] : k \in {0, 1}}

InstantOf(t) == Instant(t.y, t.mo, t.d, t.h, t.mi, t.s, 0)

\* Modification times around the instant of D2021.
MTimes == {parse_dt(D2021).instant + k : k \in (0 - MaxSkew)..MaxSkew}

Attachment1 == [url |-> "http://a/1.mp3", mime_type |-> "audio/mpeg", size_in_bytes |-> Some(7)]
Attachment2 == [url |-> "http://a/2.ogg", mime_type |-> "audio/ogg", size_in_bytes |-> None]

BaseItem ==
    [id |-> Some("1"), url |-> None, title |-> None, content_html |-> None,
     content_text |-> None, summary |-> None, date_published |-> None,
     date_modified |-> None, authors |-> None, author |-> None,
     language |-> None, attachments |-> None]

BaseDoc ==
    [version |-> Some("https://jsonfeed.org/version/1.1"), title |-> Some("T"),
     home_page_url |-> None, feed_url |-> None, description |-> None,
     icon |-> None, authors |-> None, author |-> None, language |-> None,
     items |-> None]

Json(doc) == [kind |-> "json", doc |-> doc]
Blank == [kind |-> "blank"]
Junk == [kind |-> "junk"]

DatedDoc(dm, dp) ==
    [BaseDoc EXCEPT !.items =
        Some(<<[BaseItem EXCEPT !.date_modified = dm, !.date_published = dp]>>)]

GoodDoc == DatedDoc(None, Some(D2021))

\* Documents and standard inputs of the command-line family.
CliStdins ==
    {<<Json(GoodDoc)>>,
     <<Json(DatedDoc(None, Some(D1999)))>>,
     <<Json(DatedDoc(Some(D2021Off), Some(D2021)))>>,
     <<Json(DatedDoc(Some(DBad), None))>>,
     <<Json([BaseDoc EXCEPT !.title = None])>>,
     <<Json([BaseDoc EXCEPT !.version = None])>>,
     <<Json([BaseDoc EXCEPT !.items = Some(<<[BaseItem EXCEPT !.id = None]>>)])>>,
     <<Junk>>,
     <<>>,
     <<Json(GoodDoc), Junk>>,
     <<Json(GoodDoc), Blank, Junk>>,
     <<Blank, Json(GoodDoc)>>}

CliArgs ==
    {<<>>, <<"-">>, <<"out.xml">>, <<"in.json", "out.xml">>, <<"in.json", "-">>,
     <<"-f", "out.xml">>, <<"--force", "out.xml">>,
     <<"--help">>, <<"-h">>, <<"--version">>}

Paths == {"in.json", "out.xml", "-f", "--force"}

OldContent == <<[kind |-> "old"]>>

Missing == [exists |-> FALSE, mtime |-> None, content |-> <<>>, writable |-> TRUE]

OutStates ==
    {Missing}
    \cup {[exists |-> TRUE, mtime |-> m, content |-> OldContent, writable |-> TRUE] :
            m \in Option(MTimes)}
    \cup {[exists |-> TRUE, mtime |-> Some(parse_dt(D2021).instant - 1),
           content |-> OldContent, writable |-> FALSE]}

InFile ==
    [exists |-> TRUE, mtime |-> Some(parse_dt(D2021).instant - 1),
     content |-> <<Json(GoodDoc)>>, writable |-> TRUE]

Files(out) ==
    [p \in Paths |-> IF p = "out.xml" THEN out ELSE IF p = "in.json" THEN InFile
                     ELSE Missing]

\* Items and documents of the timestamp family.
DateItems ==
    {[BaseItem EXCEPT !.date_modified = dm, !.date_published = dp] :
        dm \in Option({D1999, D2021Off, DBad}), dp \in Option({D1999, Floor, D2021})}

DateDocs ==
    {[BaseDoc EXCEPT !.items = its] : its \in Option(SeqsUpTo(DateItems, MaxItems))}

\* Items and documents of the author family.
AuthorItems ==
    {[BaseItem EXCEPT !.author = a, !.authors = as] :
        a \in Option(Authors), as \in Option(SeqsUpTo(Authors, 1))}

AuthorDocs ==
    {[BaseDoc EXCEPT !.author = a, !.authors = as, !.items = its] :
        a \in Option(Authors),
        as \in Option(SeqsUpTo(Authors, MaxAuthors)),
        its \in {None, Some(<<>>)} \cup {Some(<<it>>) : it \in AuthorItems}}

\* Items and documents of the metadata family.
MetaItems ==
    {[BaseItem EXCEPT !.title = x, !.url = x, !.summary = x, !.language = l,
                      !.content_text = ct, !.content_html = ch, !.attachments = at,
                      !.date_published = Some(D2021)] :
        x \in Option({"x"}), l \in Option({"de"}),
        ct \in Option({"text"}), ch \in Option({"<p>html</p>"}),
        at \in {None, Some(<<Attachment1>>), Some(<<Attachment2, Attachment1>>)}}

MetaDocs ==
    {[BaseDoc EXCEPT !.title = Some(t), !.feed_url = fu, !.home_page_url = hp,
                     !.description = de, !.icon = de, !.language = l,
                     !.items = its] :
        t \in {"", "T"}, fu \in Option({"", "http://f"}),
        hp \in Option({"http://h"}), de \in Option({"d"}), l \in Option({"en"}),
        its \in {None} \cup {Some(<<it>>) : it \in MetaItems}}

\* ------------------------------------------------------------- state
VARIABLES
    args,          \* the command line after the program's name
    stdin,         \* the lines of standard input
    fs,            \* the files: path -> [exists, mtime, content, writable]
    fs0,           \* the files at the start of the run
    offsetOk,      \* whether the local UTC offset can be resolved
    pc,            \* where main is
    input,         \* main's input
    output,        \* main's output
    data,          \* the text read, as lines
    feed,          \* the parsed feed, None before
    out,           \* Feed::to_atom's output so far
    updated,       \* Feed::to_atom's running updated string
    scanned,       \* items the scan has been through
    rendered,      \* items rendered as entries
    updated_time,  \* the instant Feed::to_atom returns, None before
    stdout,
    stderr,
    exit_code      \* None while the process runs

vars == <<args, stdin, fs, fs0, offsetOk, pc, input, output, data, feed, out,
          updated, scanned, rendered, updated_time, stdout, stderr, exit_code>>

env == <<args, stdin, fs0, offsetOk>>

InitRun ==
    /\ fs = fs0
    /\ pc = "args"
    /\ input = None /\ output = None
    /\ data = <<>> /\ feed = None
    /\ out = <<>> /\ updated = <<>> /\ scanned = 0 /\ rendered = 0
    /\ updated_time = None
    /\ stdout = <<>> /\ stderr = <<>> /\ exit_code = None

InitCli ==
    /\ args \in CliArgs
    /\ stdin \in CliStdins
    /\ fs0 \in {Files(o) : o \in OutStates}
    /\ offsetOk \in BOOLEAN

InitDocs ==
    /\ args = <<"-">>
    /\ stdin \in {<<Json(d)>> : d \in DateDocs \cup AuthorDocs \cup MetaDocs}
    /\ fs0 = Files(Missing)
    /\ offsetOk = TRUE

Init == (InitCli \/ InitDocs) /\ InitRun

\* ------------------------------------------------------------- main
Items == IF IsSome(feed) /\ IsSome(Unwrap(feed).items)
         THEN Unwrap(Unwrap(feed).items) ELSE <<>>

\* The document Feed::to_atom returns, written with writeln! or println!.
AtomContent(elems) == <<[kind |-> "atom", elems |-> elems]>>

\* A panic of the main thread: the message on stderr, exit status 101.
Panic(what) ==
    /\ stderr' = Append(stderr, what)
    /\ exit_code' = Some(101)
    /\ pc' = "done"

\* main's input after the arguments are read (args[k] is argv[k]).
ArgsInput(a) ==
    IF Len(a) + 1 > 1 THEN None
    ELSE IF Len(a) + 1 > 2 THEN Some(a[1])
    ELSE None

\* main's output after the arguments are read and "-" is turned into None.
ArgsOutput(a) ==
    LET o == IF Len(a) + 1 > 1 THEN Some(a[1])
             ELSE IF Len(a) + 1 > 2 THEN Some(a[2])
             ELSE None
    IN IF IsSome(o) /\ Unwrap(o) = "-" THEN None ELSE o

\* --help, -h: the usage on stdout, exit 0.
Help ==
    /\ pc = "args"
    /\ Len(args) >= 1 /\ args[1] \in {"--help", "-h"}
    /\ stdout' = Append(stdout, <<[kind |-> "help"]>>)
    /\ exit_code' = Some(0)
    /\ pc' = "done"
    /\ UNCHANGED <<env, fs, input, output, data, feed, out, updated, scanned,
                   rendered, updated_time, stderr>>

\* --version: name and version on stdout, exit 0.
Version ==
    /\ pc = "args"
    /\ Len(args) >= 1 /\ args[1] = "--version"
    /\ stdout' = Append(stdout, <<[kind |-> "version"]>>)
    /\ exit_code' = Some(0)
    /\ pc' = "done"
    /\ UNCHANGED <<env, fs, input, output, data, feed, out, updated, scanned,
                   rendered, updated_time, stderr>>

\* Any other command line: input and output are set.
ParseArgs ==
    /\ pc = "args"
    /\ ~(Len(args) >= 1 /\ args[1] \in {"--help", "-h", "--version"})
    /\ input' = ArgsInput(args)
    /\ output' = ArgsOutput(args)
    /\ pc' = "read"
    /\ UNCHANGED <<env, fs, data, feed, out, updated, scanned, rendered,
                   updated_time, stdout, stderr, exit_code>>

\* The lines of standard input up to the first empty one.
RECURSIVE UntilBlank(_)
UntilBlank(lines) ==
    IF lines = <<>> \/ Head(lines).kind = "blank" THEN <<>>
    ELSE <<Head(lines)>> \o UntilBlank(Tail(lines))

\* The input is read: the named file whole, or standard input up to the
\* first empty line, after a notice on stderr.
ReadInput ==
    /\ pc = "read"
    /\ IF IsSome(input)
       THEN IF fs[Unwrap(input)].exists
            THEN /\ data' = fs[Unwrap(input)].content
                 /\ pc' = "parse"
                 /\ UNCHANGED <<stderr, exit_code>>
            ELSE /\ Panic("read_to_string")
                 /\ UNCHANGED data
       ELSE /\ stderr' = Append(stderr, "Reading from stdin...")
            /\ data' = UntilBlank(stdin)
            /\ pc' = "parse"
            /\ UNCHANGED exit_code
    /\ UNCHANGED <<env, fs, input, output, feed, out, updated, scanned, rendered,
                   updated_time, stdout>>

\* Feed::parse: on success main goes on to Feed::to_atom, on failure it
\* reports on stderr and exits with 1.
ParseFeed ==
    /\ pc = "parse"
    /\ LET r == Feed_parse(data)
       IN IF r.ok
          THEN /\ feed' = Some(r.feed)
               /\ pc' = "to_atom"
               /\ UNCHANGED <<stderr, exit_code>>
          ELSE /\ stderr' = Append(stderr, "Cannot parse feed.")
               /\ exit_code' = Some(1)
               /\ pc' = "done"
               /\ UNCHANGED feed
    /\ UNCHANGED <<env, fs, input, output, data, out, updated, scanned, rendered,
                   updated_time, stdout>>

\* Feed::to_atom, up to the scan of the items.
ToAtomBegin ==
    /\ pc = "to_atom"
    /\ out' = Feed_to_atom_head(Unwrap(feed))
    /\ updated' = Floor
    /\ scanned' = 0
    /\ pc' = "scan"
    /\ UNCHANGED <<env, fs, input, output, data, feed, rendered, updated_time,
                   stdout, stderr, exit_code>>

\* The scan goes through one more item.
ScanItem ==
    /\ pc = "scan"
    /\ scanned < Len(Items)
    /\ updated' = ScanStep(updated, Items[scanned + 1])
    /\ scanned' = scanned + 1
    /\ UNCHANGED <<env, fs, input, output, data, feed, out, rendered, updated_time,
                   stdout, stderr, exit_code, pc>>

\* The scan is over: the feed's updated element is appended.
ScanEnd ==
    /\ pc = "scan"
    /\ scanned = Len(Items)
    /\ out' = Append(out, [tag |-> "updated", date |-> updated])
    /\ rendered' = 0
    /\ pc' = "entries"
    /\ UNCHANGED <<env, fs, input, output, data, feed, updated, scanned,
                   updated_time, stdout, stderr, exit_code>>

\* One more item is rendered as an entry, the wall clock reading t.
RenderEntry ==
    /\ pc = "entries"
    /\ rendered < Len(Items)
    /\ \E t \in NowSet : out' = Append(out, Item_to_atom(Items[rendered + 1], t))
    /\ rendered' = rendered + 1
    /\ UNCHANGED <<env, fs, input, output, data, feed, updated, scanned,
                   updated_time, stdout, stderr, exit_code, pc>>

\* Feed::to_atom's end: the root element is closed and the updated string is
\* parsed; the unwrap panics on a string that is not RFC 3339.
ToAtomEnd ==
    /\ pc = "entries"
    /\ rendered = Len(Items)
    /\ out' = Append(out, [tag |-> "/feed"])
    /\ LET r == parse_dt(updated)
       IN IF r.ok
          THEN /\ updated_time' = Some(r.instant)
               /\ pc' = "write"
               /\ UNCHANGED <<stderr, exit_code>>
          ELSE /\ Panic("parse_dt")
               /\ UNCHANGED updated_time
    /\ UNCHANGED <<env, fs, input, output, data, feed, updated, scanned, rendered,
                   stdout>>

\* The result is written: to the named file if write_file says so (created or
\* truncated, the unwrap panics when that fails), else to stdout.
WriteOutput ==
    /\ pc = "write"
    /\ IF IsSome(output)
       THEN LET p == Unwrap(output)
                mtime == get_mtime(fs, p, offsetOk)
            IN IF write_file(Unwrap(updated_time), mtime)
               THEN IF fs[p].writable
                    THEN /\ \E t \in NowSet :
                              fs' = [fs EXCEPT ![p] =
                                       [exists |-> TRUE, mtime |-> Some(InstantOf(t)),
                                        content |-> AtomContent(out),
                                        writable |-> TRUE]]
                         /\ exit_code' = Some(0)
                         /\ pc' = "done"
                         /\ UNCHANGED <<stdout, stderr>>
                    ELSE /\ Panic("File::create")
                         /\ UNCHANGED <<fs, stdout>>
               ELSE /\ exit_code' = Some(0)
                    /\ pc' = "done"
                    /\ UNCHANGED <<fs, stdout, stderr>>
       ELSE /\ stdout' = Append(stdout, AtomContent(out))
            /\ exit_code' = Some(0)
            /\ pc' = "done"
            /\ UNCHANGED <<fs, stderr>>
    /\ UNCHANGED <<env, input, output, data, feed, out, updated, scanned, rendered,
                   updated_time>>

Next ==
    \/ Help
    \/ Version
    \/ ParseArgs
    \/ ReadInput
    \/ ParseFeed
    \/ ToAtomBegin
    \/ ScanItem
    \/ ScanEnd
    \/ RenderEntry
    \/ ToAtomEnd
    \/ WriteOutput

Spec == Init /\ [][Next]_vars

\* ------------------------------------------------------------- properties
\* The elements of Feed::to_atom's output, at the feed's level, with a tag.
FeedLevel(tagname) == SelectSeq(out, LAMBDA e : e.tag = tagname)

Kids(e, tagname) == SelectSeq(e.kids, LAMBDA k : k.tag = tagname)

\* An item's candidate for the feed's updated: date_modified, else
\* date_published, else none.
Candidate(item) ==
    IF IsSome(item.date_modified) THEN item.date_modified ELSE item.date_published

\* The candidates of the first n items.
Candidates(n) ==
    {Unwrap(Candidate(Items[i])) : i \in {j \in 1..n : IsSome(Candidate(Items[j]))}}

\* s is no smaller, as a string, than any element of S.
AtLeastAll(s, S) == \A c \in S : StrCmp(s, c) # "Less"

\* Feed::to_atom has emitted the feed's updated element.
ScanOver == FeedLevel("updated") # <<>>

\* C1: the feed-level updated value that Feed::to_atom produces is the
\* lexicographically maximal candidate of the items, and it is the floor
\* 2000-01-01T00:00:00Z exactly when no item supplies a candidate.
C1_UpdatedIsMaxCandidate ==
    ScanOver =>
        LET u == FeedLevel("updated")[1].date
            C == Candidates(Len(Items))
        IN /\ C # {} => (u \in C /\ AtLeastAll(u, C))
           /\ (u = Floor) <=> (C = {})

\* The path main writes to, and what decides the write, from the files as
\* they were when the run began.
MtimeUnknown(path) ==
    \/ ~fs0[path].exists
    \/ IsNone(fs0[path].mtime)
    \/ ~offsetOk

ShouldWrite(path) ==
    MtimeUnknown(path) \/ Unwrap(updated_time) > Unwrap(fs0[path].mtime)

\* main has been through its write step with a named file as output.
WroteToFile == pc = "done" /\ IsSome(updated_time) /\ IsSome(output)

\* C2: with a named file as output, a run that parsed and rendered writes the
\* file if and only if the file's mtime cannot be determined (no file, no
\* modification time, no local offset) or updated is strictly later than the
\* mtime; otherwise the file is left as it was.
C2_ConditionalWrite ==
    WroteToFile =>
        LET p == Unwrap(output)
        IN /\ exit_code = Some(0) =>
                 ((fs[p].content = AtomContent(out)) <=> ShouldWrite(p))
           /\ ~ShouldWrite(p) => fs[p] = fs0[p]
           /\ \A q \in Paths \ {p} : fs[q] = fs0[q]

\* C2's case: the file's mtime equals updated, and the file is left alone.
C2_Witness ==
    /\ WroteToFile
    /\ fs0[Unwrap(output)].exists
    /\ ~MtimeUnknown(Unwrap(output))
    /\ fs0[Unwrap(output)].mtime = updated_time
    /\ fs[Unwrap(output)].content = OldContent

Positional(a) == a \notin {"--help", "-h", "--version", "-f", "--force"}

\* C3: with two positional arguments the first is the input file and the
\* second the output; with one, it is the output and the input is standard
\* input; an output of "-" is standard output.
C3_CommandLine ==
    pc \in {"read", "parse"} =>
        /\ (Len(args) = 2 /\ Positional(args[1]) /\ Positional(args[2])) =>
              /\ input = Some(args[1])
              /\ output = IF args[2] = "-" THEN None ELSE Some(args[2])
        /\ (Len(args) = 1 /\ Positional(args[1])) =>
              /\ input = None
              /\ output = IF args[1] = "-" THEN None ELSE Some(args[1])

\* C4: with -f or --force before the output file, a run that parsed and
\* rendered rewrites that file, whatever its modification time.
C4_ForceRewrites ==
    (/\ pc = "done" /\ exit_code = Some(0) /\ IsSome(updated_time)
     /\ Len(args) = 2 /\ args[1] \in {"-f", "--force"}
     /\ fs0[args[2]].exists /\ IsSome(fs0[args[2]].mtime)
     /\ Unwrap(fs0[args[2]].mtime) > Unwrap(updated_time)) =>
        fs[args[2]].content = AtomContent(out)

\* What normalisation makes of r (a feed or an item as the document has it): n.
Normalized(r, n) ==
    /\ n.author = None
    /\ (IsSome(r.author) /\ IsNone(r.authors)) => n.authors = Some(<<Unwrap(r.author)>>)
    /\ IsSome(r.authors) => n.authors = r.authors
    /\ (IsNone(r.author) /\ IsNone(r.authors)) => n.authors = None

RawItems == IF IsSome(data[1].doc.items) THEN Unwrap(data[1].doc.items) ELSE <<>>

\* C5: in the feed Feed::parse returns, and in each of its items, the legacy
\* author is absent; authors is the one author of the document when the
\* document had author and no authors, and is the document's authors,
\* unchanged, when it had authors.
C5_AuthorsNormalized ==
    IsSome(feed) =>
        /\ Normalized(data[1].doc, Unwrap(feed))
        /\ Len(Items) = Len(RawItems)
        /\ \A i \in 1..Len(Items) : Normalized(RawItems[i], Items[i])

\* C5's case: a parsed feed that had only the legacy author, with an item
\* that had both author and authors.
C5_Witness ==
    /\ IsSome(feed)
    /\ IsSome(data[1].doc.author) /\ IsNone(data[1].doc.authors)
    /\ Unwrap(feed).authors = Some(<<Unwrap(data[1].doc.author)>>)
    /\ \E i \in 1..Len(RawItems) :
          /\ IsSome(RawItems[i].author) /\ IsSome(RawItems[i].authors)
          /\ <<Unwrap(RawItems[i].author)>> # Unwrap(RawItems[i].authors)

\* The text read is not one JSON document with a version, a title and an id
\* in every item.
InvalidText(d) ==
    \/ Len(d) # 1
    \/ d[1].kind # "json"
    \/ IsNone(d[1].doc.version)
    \/ IsNone(d[1].doc.title)
    \/ /\ IsSome(d[1].doc.items)
       /\ \E i \in 1..Len(Unwrap(d[1].doc.items)) : IsNone(Unwrap(d[1].doc.items)[i].id)

\* main has called Feed::parse (--help and --version end before it).
ParseCalled ==
    /\ pc \notin {"args", "read"}
    /\ ~(Len(args) >= 1 /\ args[1] \in {"--help", "-h", "--version"})

\* C6: when Feed::parse fails, nothing is written to stdout or to a file, and
\* the run ends with a diagnostic on stderr and exit code 1.
C6_ParseFailure ==
    (ParseCalled /\ InvalidText(data)) =>
        /\ stdout = <<>>
        /\ fs = fs0
        /\ pc \in {"parse", "done"}
        /\ pc = "done" =>
              /\ exit_code = Some(1)
              /\ stderr # <<>> /\ stderr[Len(stderr)] = "Cannot parse feed."

\* C6's case: the parse failed with an existing file named as output.
C6_Witness ==
    /\ pc = "done" /\ exit_code = Some(1)
    /\ InvalidText(data) /\ data # <<>>
    /\ IsSome(output) /\ fs0[Unwrap(output)].exists
    /\ fs[Unwrap(output)].content = OldContent

\* C7: Feed::to_atom emits exactly one feed-level id, feed_url if present and
\* title otherwise, and that id is never empty.
C7_FeedIdNonEmpty ==
    out # <<>> =>
        LET ids == FeedLevel("id")
            f == Unwrap(feed)
        IN /\ Len(ids) = 1
           /\ ids[1].text = IF IsSome(f.feed_url) THEN Unwrap(f.feed_url) ELSE f.title
           /\ ids[1].text # ""

\* The author element the claims expect for an author.
AuthorElement(a) ==
    [tag |-> "author",
     name |-> IF a.name = None THEN "" ELSE a.name[1],
     uri |-> a.url]

\* C8: the feed-level author elements are those of Feed.authors, one each, in
\* order; when Feed.authors is absent or empty there is exactly one, with an
\* empty name and no uri; there is never none.
C8_FeedAuthors ==
    out # <<>> =>
        LET got == FeedLevel("author")
            f == Unwrap(feed)
        IN /\ Len(got) >= 1
           /\ IF f.authors = None \/ f.authors = Some(<<>>)
              THEN got = <<[tag |-> "author", name |-> "", uri |-> None]>>
              ELSE /\ Len(got) = Len(f.authors[1])
                   /\ \A i \in 1..Len(got) : got[i] = AuthorElement(f.authors[1][i])

\* C8's case: authors is an empty list, and the placeholder is emitted.
C8_Witness ==
    /\ out # <<>>
    /\ Unwrap(feed).authors = Some(<<>>)
    /\ Len(FeedLevel("author")) = 1

\* C9: in the entry of each item, updated is date_modified, else
\* date_published, else the current time; published is there exactly when
\* date_published is, with its value, whatever updated came from.
C9_EntryDates ==
    \A k \in 1..Len(FeedLevel("entry")) :
        LET e == FeedLevel("entry")[k]
            item == Items[k]
            upd == Kids(e, "updated")
            pub == Kids(e, "published")
        IN /\ Len(upd) = 1
           /\ IF IsSome(item.date_modified)
              THEN upd[1].date = Unwrap(item.date_modified)
              ELSE IF IsSome(item.date_published)
              THEN upd[1].date = Unwrap(item.date_published)
              ELSE upd[1].date \in {FormatRfc3339(t) : t \in NowSet}
           /\ IF IsSome(item.date_published)
              THEN pub = <<[tag |-> "published", date |-> Unwrap(item.date_published)]>>
              ELSE pub = <<>>

\* C9's case: an entry whose item has both dates, different, and an entry
\* whose item has date_published alone.
C9_Witness ==
    /\ \E k \in 1..Len(FeedLevel("entry")) :
          /\ IsSome(Items[k].date_modified) /\ IsSome(Items[k].date_published)
          /\ Items[k].date_modified # Items[k].date_published
    /\ \E k \in 1..Len(FeedLevel("entry")) :
          /\ IsNone(Items[k].date_modified) /\ IsSome(Items[k].date_published)
          /\ Kids(FeedLevel("entry")[k], "updated")[1].date
                = Kids(FeedLevel("entry")[k], "published")[1].date

\* The running updated string during and after the scan.
RunningUpdatedOk ==
    (pc = "scan" \/ ScanOver) =>
        /\ StrCmp(updated, Floor) # "Less"
        /\ AtLeastAll(updated, Candidates(scanned))
        /\ updated \in {Floor} \cup Candidates(scanned)

\* C10: at every step of the scan and at its end, the running updated string
\* is at least the floor and at least the candidate of every item scanned so
\* far, it is the floor or one of those candidates, and no step of the scan
\* makes it smaller.
C10_RunningUpdated ==
    /\ []RunningUpdatedOk
    /\ [][pc = "scan" => StrCmp(updated', updated) # "Less"]_vars

\* C10's case: the scan has been through two items with candidates, the later
\* one smaller than the running value.
C10_Witness ==
    /\ pc = "scan" /\ scanned = 2
    /\ IsSome(Candidate(Items[1])) /\ IsSome(Candidate(Items[2]))
    /\ updated = Unwrap(Candidate(Items[1]))
    /\ StrCmp(Unwrap(Candidate(Items[2])), updated) = "Less"

=============================================================================
